---- MODULE Spec2Model ----
(***************************************************************************)
(* Course catalog viewer (src/script.js): the Course class, the catalog    *)
(* arrays allCourses / filteredCourses, the five <select> controls, the    *)
(* rendered list and details panel, and the event handlers that change     *)
(* them (file chosen, reader.onload, reader.onerror, select change, click).*)
(*                                                                         *)
(* A JavaScript value is a record [k, s, n]: k is its type ("str", "num",  *)
(* "null", "undef"), s its text when a string, n its value when a number.  *)
(* A string is a TLA+ string; Chars spells it as its characters for the    *)
(* code that looks inside a string (split, parseInt, comparison).          *)
(***************************************************************************)
EXTENDS Integers, Sequences, FiniteSets, TLC

\* ------------------------------------------------------------------ bounds

\* longest JSON array a file holds in the full state machine
MaxLen == 2
\* longest catalog drawn for the filter specification
ViewLen == 2
\* longest catalog drawn for the semester-sort specification
SemLen == 3
\* longest catalog of the specification of mistyped ids
TypedLen == 3
\* longest JSON array of the specification of the option lists
OptionLen == 3
\* most properties of a record that differ from the complete record
NormVaried == 1

\* ------------------------------------------------------------ characters

Digits == <<"0", "1", "2", "3", "4", "5", "6", "7", "8", "9">>
Upper ==
    <<"A", "B", "C", "D", "E", "F", "G", "H", "I", "J", "K", "L", "M",
      "N", "O", "P", "Q", "R", "S", "T", "U", "V", "W", "X", "Y", "Z">>
Lower ==
    <<"a", "b", "c", "d", "e", "f", "g", "h", "i", "j", "k", "l", "m",
      "n", "o", "p", "q", "r", "s", "t", "u", "v", "w", "x", "y", "z">>

\* the characters of the strings of the model, in UTF-16 code unit order
CodeOrder == <<" ", "+", "-", ".">> \o Digits \o Upper \o Lower

\* the same characters in the primary order of the root collation, case folded
CollationOrder == <<" ", "-", ".", "+">> \o Digits \o Lower

IndexIn(seq, c) == CHOOSE i \in 1..Len(seq) : seq[i] = c
InSeq(seq, c) == \E i \in 1..Len(seq) : seq[i] = c

Characters == {CodeOrder[i] : i \in 1..Len(CodeOrder)}
UpperSet == {Upper[i] : i \in 1..Len(Upper)}
DigitSet == {Digits[i] : i \in 1..Len(Digits)}

IsUpper(c) == c \in UpperSet
IsDigit(c) == c \in DigitSet
DigitVal(c) == IndexIn(Digits, c) - 1
ToLower(c) == IF IsUpper(c) THEN Lower[IndexIn(Upper, c)] ELSE c

\* the rank of each character by code unit, and by the collation's first level
CodeUnitOf == [c \in Characters |-> IndexIn(CodeOrder, c)]
PrimaryOf == [c \in Characters |-> IndexIn(CollationOrder, ToLower(c))]
CodeUnit(c) == CodeUnitOf[c]

\* the spelling of each string the model's inputs and the program's literals use
Chars(t) ==
    CASE t = "" -> <<>>
      [] t = "A" -> <<"A">>
      [] t = "B" -> <<"B">>
      [] t = "C" -> <<"C">>
      [] t = "D" -> <<"D">>
      [] t = "E" -> <<"E">>
      [] t = "F" -> <<"F">>
      [] t = "a" -> <<"a">>
      [] t = "T" -> <<"T">>
      [] t = "U" -> <<"U">>
      [] t = "X" -> <<"X">>
      [] t = "Y" -> <<"Y">>
      [] t = "CS" -> <<"C", "S">>
      [] t = "EE" -> <<"E", "E">>
      [] t = "0" -> <<"0">>
      [] t = "1" -> <<"1">>
      [] t = "2" -> <<"2">>
      [] t = "3" -> <<"3">>
      [] t = "4" -> <<"4">>
      [] t = "7" -> <<"7">>
      [] t = "10" -> <<"1", "0">>
      [] t = "2020" -> <<"2", "0", "2", "0">>
      [] t = "All" -> <<"A", "l", "l">>
      [] t = "TBA" -> <<"T", "B", "A">>
      [] t = "null" -> <<"n", "u", "l", "l">>
      [] t = "Unknown ID" -> <<"U", "n", "k", "n", "o", "w", "n", " ", "I", "D">>
      [] t = "Untitled course" ->
            <<"U", "n", "t", "i", "t", "l", "e", "d", " ", "c", "o", "u", "r", "s", "e">>
      [] t = "Unknown department" ->
            <<"U", "n", "k", "n", "o", "w", "n", " ",
              "d", "e", "p", "a", "r", "t", "m", "e", "n", "t">>
      [] t = "Unknown semester" ->
            <<"U", "n", "k", "n", "o", "w", "n", " ", "s", "e", "m", "e", "s", "t", "e", "r">>
      [] t = "Fall 2020" -> <<"F", "a", "l", "l", " ", "2", "0", "2", "0">>
      [] t = "Spring 2021" -> <<"S", "p", "r", "i", "n", "g", " ", "2", "0", "2", "1">>
      [] t = "Winter 2021" -> <<"W", "i", "n", "t", "e", "r", " ", "2", "0", "2", "1">>
      [] t = "Summer 2021" -> <<"S", "u", "m", "m", "e", "r", " ", "2", "0", "2", "1">>
      [] t = "Autumn 2021" -> <<"A", "u", "t", "u", "m", "n", " ", "2", "0", "2", "1">>
      [] t = "Fall" -> <<"F", "a", "l", "l">>
      [] t = "Fall  2020" -> <<"F", "a", "l", "l", " ", " ", "2", "0", "2", "0">>
      [] t = "Fall 20x" -> <<"F", "a", "l", "l", " ", "2", "0", "x">>
      [] t = "Fall x" -> <<"F", "a", "l", "l", " ", "x">>


\* ------------------------------------------------------------- JS values

Str(t) == [k |-> "str", s |-> t, n |-> 0]
Num(i) == [k |-> "num", s |-> "", n |-> i]
Null == [k |-> "null", s |-> "", n |-> 0]
Undef == [k |-> "undef", s |-> "", n |-> 0]

\* ToBoolean: "", 0, null and undefined are falsy
Truthy(v) ==
    CASE v.k = "str" -> v.s # ""
      [] v.k = "num" -> v.n # 0
      [] OTHER -> FALSE

\* a || b
OrElse(a, b) == IF Truthy(a) THEN a ELSE b

RECURSIVE NatStr(_)
\* decimal rendering of a natural number
NatStr(i) == IF i < 10 THEN Digits[i + 1] ELSE NatStr(i \div 10) \o Digits[(i % 10) + 1]

\* String(v)
ToStr(v) ==
    CASE v.k = "str" -> v.s
      [] v.k = "num" -> IF v.n < 0 THEN "-" \o NatStr(-v.n) ELSE NatStr(v.n)
      [] v.k = "null" -> "null"
      [] OTHER -> "undefined"

\* a === b
StrictEq(a, b) ==
    /\ a.k = b.k
    /\ a.k = "str" => a.s = b.s
    /\ a.k = "num" => a.n = b.n


\* --------------------------------------------------------- string helpers

Sign(i) == IF i < 0 THEN -1 ELSE IF i > 0 THEN 1 ELSE 0

\* where two sequences first differ, given that they do
FirstDifference(x, y, differ) == CHOOSE i \in differ : \A j \in differ : i <= j

\* lexicographic comparison of two sequences of integers: -1, 0 or 1
SeqCmp(x, y) ==
    IF \E i \in 1..Len(x) : i <= Len(y) /\ x[i] # y[i]
    THEN Sign(x[FirstDifference(x, y, {i \in 1..Len(x) : i <= Len(y) /\ x[i] # y[i]})]
              - y[FirstDifference(x, y, {i \in 1..Len(x) : i <= Len(y) /\ x[i] # y[i]})])
    ELSE Sign(Len(x) - Len(y))

CodeUnits(cs) == [i \in 1..Len(cs) |-> CodeUnit(cs[i])]
PrimaryKeys(cs) == [i \in 1..Len(cs) |-> PrimaryOf[cs[i]]]
CaseKeys(cs) == [i \in 1..Len(cs) |-> IF IsUpper(cs[i]) THEN 1 ELSE 0]

\* the comparison Array.prototype.sort() makes without a comparator: by code units
CodeUnitCompare(a, b) == SeqCmp(CodeUnits(Chars(a)), CodeUnits(Chars(b)))

FirstNonZero(p, q) == IF p # 0 THEN p ELSE q

\* the root collation on two spellings: letters regardless of case first, then
\* lower case before upper case
Collate(x, y) ==
    FirstNonZero(SeqCmp(PrimaryKeys(x), PrimaryKeys(y)), SeqCmp(CaseKeys(x), CaseKeys(y)))

\* a.localeCompare(b) on two strings
localeCompare(a, b) == Collate(Chars(a), Chars(b))

FirstSpace(cs) ==
    IF \E i \in 1..Len(cs) : cs[i] = " "
    THEN CHOOSE i \in 1..Len(cs) : cs[i] = " " /\ \A j \in 1..(i - 1) : cs[j] # " "
    ELSE 0

RECURSIVE SplitOnSpace(_)
\* semString.split(' ') on the characters of the string
SplitOnSpace(cs) ==
    IF FirstSpace(cs) = 0 THEN <<cs>>
    ELSE <<SubSeq(cs, 1, FirstSpace(cs) - 1)>>
            \o SplitOnSpace(SubSeq(cs, FirstSpace(cs) + 1, Len(cs)))

RECURSIVE SkipSpaces(_)
SkipSpaces(cs) == IF cs # <<>> /\ Head(cs) = " " THEN SkipSpaces(Tail(cs)) ELSE cs

RECURSIVE DigitPrefix(_, _)
\* the value of the longest prefix of digits, continued from acc
DigitPrefix(cs, acc) ==
    IF cs # <<>> /\ IsDigit(Head(cs))
    THEN DigitPrefix(Tail(cs), acc * 10 + DigitVal(Head(cs)))
    ELSE acc

NaN == [nan |-> TRUE, n |-> 0]
Number(i) == [nan |-> FALSE, n |-> i]

\* the digits after white space and an optional sign; NaN when there are none
ParseDigits(cs) ==
    LET body == SkipSpaces(cs)
        neg == body # <<>> /\ Head(body) = "-"
        ds == IF body # <<>> /\ Head(body) \in {"-", "+"} THEN Tail(body) ELSE body
    IN  IF ds = <<>> \/ ~IsDigit(Head(ds)) THEN NaN
        ELSE Number(IF neg THEN -DigitPrefix(ds, 0) ELSE DigitPrefix(ds, 0))

\* parseInt(parts[i], 10); parts[i] is undefined past the end of parts
parseInt(parts, i) == IF i > Len(parts) THEN NaN ELSE ParseDigits(parts[i])

RECURSIVE AllDigits(_)
AllDigits(cs) == cs = <<>> \/ (IsDigit(Head(cs)) /\ AllDigits(Tail(cs)))

\* ToNumber(v) as the subtraction a - b applies it: a number, a string of digits
\* (empty is 0), null (0); any other string and undefined are NaN
ToNumber(v) ==
    CASE v.k = "num" -> Number(v.n)
      [] v.k = "null" -> Number(0)
      [] v.k = "str" ->
            LET cs == SkipSpaces(Chars(v.s))
                ds == IF cs # <<>> /\ Head(cs) \in {"-", "+"} THEN Tail(cs) ELSE cs
            IN  IF cs = <<>> THEN Number(0)
                ELSE IF ds # <<>> /\ AllDigits(ds) THEN ParseDigits(cs)
                ELSE NaN
      [] OTHER -> NaN


\* ---------------------------------------------------------------- Course

\* an element of the JSON array: an object (a missing key reads as undefined),
\* the value null, or a number
RawObject(id, title, department, level, credits, instructor, description, semester) ==
    [k |-> "obj", id |-> id, title |-> title, department |-> department,
     level |-> level, credits |-> credits, instructor |-> instructor,
     description |-> description, semester |-> semester]
RawScalar(kind) ==
    [k |-> kind, id |-> Undef, title |-> Undef, department |-> Undef,
     level |-> Undef, credits |-> Undef, instructor |-> Undef,
     description |-> Undef, semester |-> Undef]

\* reading a property of null raises a TypeError
CourseThrows(raw) == raw.k = "null"

\* a variant of Course that reads the title only of a record that has an id
CourseTitleAfterId(raw) ==
    [id |-> OrElse(raw.id, Str("Unknown ID")),
     title |-> IF Truthy(raw.id) THEN OrElse(raw.title, Str("Untitled course"))
               ELSE Str("Untitled course"),
     department |-> OrElse(raw.department, Str("Unknown department")),
     level |-> OrElse(raw.level, Null),
     credits |-> OrElse(raw.credits, Null),
     instructor |-> OrElse(raw.instructor, Null),
     description |-> OrElse(raw.description, Str("No description available.")),
     semester |-> OrElse(raw.semester, Str("Unknown semester"))]

\* new Course(raw)
Course(raw) ==
    [id |-> OrElse(raw.id, Str("Unknown ID")),
     title |-> OrElse(raw.title, Str("Untitled course")),
     department |-> OrElse(raw.department, Str("Unknown department")),
     level |-> OrElse(raw.level, Null),
     credits |-> OrElse(raw.credits, Null),
     instructor |-> OrElse(raw.instructor, Null),
     description |-> OrElse(raw.description, Str("No description available.")),
     semester |-> OrElse(raw.semester, Str("Unknown semester"))]

getInstructorLabel(course) ==
    IF Truthy(course.instructor) THEN course.instructor ELSE Str("TBA")

\* ------------------------------------------------------------ sortCourses

SortKeys == {"none", "id-asc", "id-desc", "title-asc", "title-desc", "sem-earliest", "sem-latest"}

\* a variant of termOrder that ranks the four terms by name
termOrderByName(term) ==
    CASE term = <<"F", "a", "l", "l">> -> 1
      [] term = <<"S", "p", "r", "i", "n", "g">> -> 2
      [] term = <<"S", "u", "m", "m", "e", "r">> -> 3
      [] term = <<"W", "i", "n", "t", "e", "r">> -> 4
      [] OTHER -> 0

\* the switch on parts[0]
termOrder(term) ==
    CASE term = <<"W", "i", "n", "t", "e", "r">> -> 1
      [] term = <<"S", "p", "r", "i", "n", "g">> -> 2
      [] term = <<"S", "u", "m", "m", "e", "r">> -> 3
      [] term = <<"F", "a", "l", "l">> -> 4
      [] OTHER -> 0

\* number || 0
OrZero(number) == IF number.nan THEN 0 ELSE number.n

\* the rest of semesterToNumber, from parts on
SemesterOfParts(parts) == OrZero(parseInt(parts, 2)) * 10 + termOrder(parts[1])

\* semesterToNumber on a string value (split is no method of any other value)
semesterToNumber(semString) ==
    IF ~Truthy(semString) THEN 0
    ELSE SemesterOfParts(SplitOnSpace(Chars(semString.s)))

\* the field a sort key reads, and whether the comparator can call its method
SortField(course, sortValue) ==
    CASE sortValue \in {"id-asc", "id-desc"} -> course.id
      [] sortValue \in {"title-asc", "title-desc"} -> course.title
      [] OTHER -> course.semester

\* the comparator of coursesArray.sort on a call that does not throw: the
\* receiver of localeCompare is a string, its argument is converted to one
Compare(sortValue, a, b) ==
    CASE sortValue = "id-asc" -> localeCompare(ToStr(a.id), ToStr(b.id))
      [] sortValue = "id-desc" -> localeCompare(ToStr(b.id), ToStr(a.id))
      [] sortValue = "title-asc" -> localeCompare(ToStr(a.title), ToStr(b.title))
      [] sortValue = "title-desc" -> localeCompare(ToStr(b.title), ToStr(a.title))
      [] sortValue = "sem-earliest" ->
            semesterToNumber(a.semester) - semesterToNumber(b.semester)
      [] sortValue = "sem-latest" ->
            semesterToNumber(b.semester) - semesterToNumber(a.semester)
      [] OTHER -> 0

\* x placed behind every element that does not compare greater than it
InsertStable(sorted, x, sortValue) ==
    LET after == {i \in 1..Len(sorted) : Compare(sortValue, sorted[i], x) > 0}
        at == IF after = {} THEN Len(sorted) + 1
              ELSE CHOOSE i \in after : \A j \in after : i <= j
    IN  SubSeq(sorted, 1, at - 1) \o <<x>> \o SubSeq(sorted, at, Len(sorted))

RECURSIVE StableSort(_, _, _)
\* Array.prototype.sort is stable: the one order its comparator allows
StableSort(done, rest, sortValue) ==
    IF rest = <<>> THEN done
    ELSE StableSort(InsertStable(done, Head(rest), sortValue), Tail(rest), sortValue)

NoMethod(course, sortValue) == SortField(course, sortValue).k # "str"

\* Whether the comparator throws a TypeError depends on the calls the engine
\* makes. localeCompare is called on one of the two fields, so a call on two
\* courses throws when that one is no string; split is called on both
\* semesters. Every element is compared at least once, and every two elements
\* that end up next to each other are compared with each other.
SortCanThrow(coursesArray, sortValue) ==
    /\ sortValue # "none"
    /\ Len(coursesArray) >= 2
    /\ \E i \in 1..Len(coursesArray) : NoMethod(coursesArray[i], sortValue)

\* sorted is the array in the order the comparator allows
SortCanReturn(sorted, sortValue) ==
    \/ sortValue = "none"
    \/ Len(sorted) < 2
    \/ \A i \in 1..Len(sorted) : ~NoMethod(sorted[i], sortValue)
    \/ /\ sortValue \notin {"sem-earliest", "sem-latest"}
       /\ \A i \in 1..(Len(sorted) - 1) :
            ~(NoMethod(sorted[i], sortValue) /\ NoMethod(sorted[i + 1], sortValue))

\* the outcomes of coursesArray.sort(comparator) an engine can produce. A
\* comparator that throws leaves the array as it was (the elements are sorted
\* in a copy and written back at the end).
SortOutcomes(coursesArray, sortValue, sorted) ==
    (IF SortCanReturn(sorted, sortValue)
     THEN {[threw |-> FALSE, array |-> sorted]}
     ELSE {})
    \cup
    (IF SortCanThrow(coursesArray, sortValue)
     THEN {[threw |-> TRUE, array |-> coursesArray]}
     ELSE {})

\* sortCourses(coursesArray, sortValue)
sortCourses(coursesArray, sortValue) ==
    IF sortValue = "none"
    THEN {[threw |-> FALSE, array |-> coursesArray]}
    ELSE SortOutcomes(coursesArray, sortValue, StableSort(<<>>, coursesArray, sortValue))

\* ----------------------------------------------------- applyFiltersAndSort

\* a variant of Matches that compares level and credits without String()
MatchesUncoerced(course, deptValue, levelValue, creditsValue, instructorValue) ==
    /\ deptValue = "All" \/ StrictEq(course.department, Str(deptValue))
    /\ levelValue = "All" \/ StrictEq(course.level, Str(levelValue))
    /\ creditsValue = "All" \/ StrictEq(course.credits, Str(creditsValue))
    /\ instructorValue = "All" \/ StrictEq(getInstructorLabel(course), Str(instructorValue))

\* a variant of Matches that has no "All" case for the instructor
MatchesWithoutAll(course, deptValue, levelValue, creditsValue, instructorValue) ==
    /\ deptValue = "All" \/ StrictEq(course.department, Str(deptValue))
    /\ levelValue = "All" \/ ToStr(course.level) = levelValue
    /\ creditsValue = "All" \/ ToStr(course.credits) = creditsValue
    /\ StrictEq(getInstructorLabel(course), Str(instructorValue))

\* the callback of allCourses.filter
Matches(course, deptValue, levelValue, creditsValue, instructorValue) ==
    LET matchesDept == deptValue = "All" \/ StrictEq(course.department, Str(deptValue))
        matchesLevel == levelValue = "All" \/ ToStr(course.level) = levelValue
        matchesCredits == creditsValue = "All" \/ ToStr(course.credits) = creditsValue
        matchesInstructor ==
            instructorValue = "All" \/ StrictEq(getInstructorLabel(course), Str(instructorValue))
    IN  matchesDept /\ matchesLevel /\ matchesCredits /\ matchesInstructor

RECURSIVE FilterCourses(_, _, _, _, _)
\* allCourses.filter(...): the matching courses in the order of the array
FilterCourses(courses, deptValue, levelValue, creditsValue, instructorValue) ==
    IF courses = <<>> THEN <<>>
    ELSE (IF Matches(Head(courses), deptValue, levelValue, creditsValue, instructorValue)
          THEN <<Head(courses)>> ELSE <<>>)
         \o FilterCourses(Tail(courses), deptValue, levelValue, creditsValue, instructorValue)

\* ------------------------------------------------------------- rendering

\* renderCourseList(): one button per course of filteredCourses, showing its
\* id as text and keeping the course for its click handler; none is marked
renderCourseList(courses) ==
    [i \in 1..Len(courses) |->
        [course |-> courses[i], textContent |-> ToStr(courses[i].id), selected |-> FALSE]]

\* markSelectedCourse(courseId): item.textContent === courseId for every item
markSelectedCourse(items, courseId) ==
    [i \in 1..Len(items) |->
        [items[i] EXCEPT !.selected = StrictEq(Str(items[i].textContent), courseId)]]

\* renderCourseDetails(course) shows the course; renderCourseDetails(null)
\* shows the placeholder
DetailsOf(course) == <<course>>
Placeholder == <<>>

\* applyFiltersAndSort(): every outcome of one call. threw: the comparator's
\* TypeError left the function after filteredCourses was assigned and before
\* anything was rendered.
applyFiltersAndSort(all, filtered, list, details, dv, lv, cv, iv, sv) ==
    IF Len(all) = 0
    THEN {[threw |-> FALSE, filteredCourses |-> filtered,
           courseList |-> renderCourseList(filtered), courseDetails |-> Placeholder]}
    ELSE {IF o.threw
          THEN [threw |-> TRUE, filteredCourses |-> o.array,
                courseList |-> list, courseDetails |-> details]
          ELSE [threw |-> FALSE, filteredCourses |-> o.array,
                courseList |->
                    IF Len(o.array) > 0
                    THEN markSelectedCourse(renderCourseList(o.array), o.array[1].id)
                    ELSE renderCourseList(o.array),
                courseDetails |->
                    IF Len(o.array) > 0 THEN DetailsOf(o.array[1]) ELSE Placeholder]
          : o \in sortCourses(FilterCourses(all, dv, lv, cv, iv), sv)}

\* ------------------------------------------------ populateFilterDropdowns

RECURSIVE AddAll(_, _)
\* Set.add of every value in turn: a Set keeps the first of equal values, in
\* insertion order
AddAll(set, values) ==
    IF values = <<>> THEN set
    ELSE AddAll(IF \E i \in 1..Len(set) : set[i] = Head(values)
                THEN set ELSE Append(set, Head(values)),
                Tail(values))

RECURSIVE DefaultSort(_, _)
\* Array.from(set).sort(): stable, by the code units of String(value)
DefaultSort(done, rest) ==
    IF rest = <<>> THEN done
    ELSE LET x == Head(rest)
             after == {i \in 1..Len(done) : CodeUnitCompare(ToStr(done[i]), ToStr(x)) > 0}
             at == IF after = {} THEN Len(done) + 1
                   ELSE CHOOSE i \in after : \A j \in after : i <= j
         IN  DefaultSort(SubSeq(done, 1, at - 1) \o <<x>> \o SubSeq(done, at, Len(done)),
                         Tail(rest))

\* (a, b) => a - b, as sort reads it: NaN counts as 0
NumericCompare(a, b) ==
    IF ToNumber(a).nan \/ ToNumber(b).nan THEN 0 ELSE ToNumber(a).n - ToNumber(b).n

RECURSIVE NumericSort(_, _)
NumericSort(done, rest) ==
    IF rest = <<>> THEN done
    ELSE LET x == Head(rest)
             after == {i \in 1..Len(done) : NumericCompare(done[i], x) > 0}
             at == IF after = {} THEN Len(done) + 1
                   ELSE CHOOSE i \in after : \A j \in after : i <= j
         IN  NumericSort(SubSeq(done, 1, at - 1) \o <<x>> \o SubSeq(done, at, Len(done)),
                         Tail(rest))

Orders(seq) ==
    {[i \in 1..Len(seq) |-> seq[p[i]]] :
        p \in {q \in [1..Len(seq) -> 1..Len(seq)] : \A i, j \in 1..Len(seq) : q[i] = q[j] => i = j}}

\* a - b is a consistent comparator unless a value that is no number (NaN, equal
\* to everything) meets two numbers that differ; the order is then the engine's
NumericSortOutcomes(values) ==
    IF \E i, j, l \in 1..Len(values) :
          /\ ToNumber(values[i]).nan
          /\ ~ToNumber(values[j]).nan /\ ~ToNumber(values[l]).nan
          /\ ToNumber(values[j]).n # ToNumber(values[l]).n
    THEN Orders(values)
    ELSE {NumericSort(<<>>, values)}

\* the values of the <option>s of a select: "All", then String of each value
OptionValues(values) == <<"All">> \o [i \in 1..Len(values) |-> ToStr(values[i])]

NotNull(values) == SelectSeq(values, LAMBDA v : v.k \notin {"null", "undef"})

\* populateFilterDropdowns(): the option lists it can leave in the four selects
populateFilterDropdowns(all) ==
    LET departments == AddAll(<<>>, [i \in 1..Len(all) |-> all[i].department])
        levels == AddAll(<<>>, NotNull([i \in 1..Len(all) |-> all[i].level]))
        credits == AddAll(<<>>, NotNull([i \in 1..Len(all) |-> all[i].credits]))
        instructors == AddAll(<<>>, [i \in 1..Len(all) |-> getInstructorLabel(all[i])])
    IN  {[department |-> OptionValues(DefaultSort(<<>>, departments)),
          level |-> OptionValues(sortedLevels),
          credits |-> OptionValues(sortedCredits),
          instructor |-> OptionValues(DefaultSort(<<>>, instructors))]
         : sortedLevels \in NumericSortOutcomes(levels),
           sortedCredits \in NumericSortOutcomes(credits)}

\* resetSelectOptions(selectElement, 'All'): the only option left is "All"
resetSelectOptions == <<"All">>

\* ----------------------------------------------------------------- files

\* the text of a file: whether JSON.parse accepts it, and the value it yields
Document(root) == [wellFormed |-> TRUE, root |-> root]
Malformed == [wellFormed |-> FALSE, root |-> [k |-> "null", elems |-> <<>>]]
ArrayRoot(elems) == [k |-> "array", elems |-> elems]
OtherRoot(kind) == [k |-> kind, elems |-> <<>>]

\* JSON.parse(reader.result)
JSONparse(text) == [threw |-> ~text.wellFormed, value |-> text.root]
\* a variant of isArray that also takes an object for an array
isArrayOrObject(value) == value.k \in {"array", "obj"}
\* Array.isArray(jsonData)
isArray(value) == value.k = "array"

SeqsUpTo(S, n) == UNION {[1..m -> S] : m \in 0..n}

\* array elements of the full state machine: a complete record, a record with
\* a numeric id and nothing else, and null
PoolElements ==
    {RawObject(Str("A"), Str("T"), Str("CS"), Num(1), Undef, Str("X"), Undef, Str("Fall 2020")),
     RawObject(Num(7), Undef, Undef, Undef, Undef, Undef, Undef, Undef),
     RawScalar("null")}

\* texts that are no catalog: not JSON, and JSON whose root is an object, a
\* number or null
BadTexts == {Malformed, Document(OtherRoot("obj")), Document(OtherRoot("num")),
             Document(OtherRoot("null"))}

Texts == BadTexts \cup {Document(ArrayRoot(e)) : e \in SeqsUpTo(PoolElements, MaxLen)}

\* array elements for the filters: a complete record, a record whose level and
\* credits are the string "null" and whose instructor is a number, and a
\* record with an id and nothing else
ViewElements ==
    {RawObject(Str("A"), Str("T"), Str("CS"), Num(1), Num(3), Str("X"), Undef, Str("Fall 2020")),
     RawObject(Str("B"), Undef, Str("CS"), Str("null"), Str("null"), Num(7), Undef, Undef),
     RawObject(Str("C"), Undef, Undef, Undef, Undef, Undef, Undef, Undef)}

\* array elements for the semester sort: the three semesters of the example,
\* a second course of Winter 2021, a course with no semester and a course
\* whose term is none of the four
SemElements ==
    {RawObject(Str("A"), Undef, Str("CS"), Undef, Undef, Undef, Undef, Str("Fall 2020")),
     RawObject(Str("B"), Undef, Undef, Undef, Undef, Undef, Undef, Str("Spring 2021")),
     RawObject(Str("C"), Undef, Str("CS"), Undef, Undef, Undef, Undef, Str("Winter 2021")),
     RawObject(Str("D"), Undef, Undef, Undef, Undef, Undef, Undef, Str("Winter 2021")),
     RawObject(Str("E"), Undef, Str("CS"), Undef, Undef, Undef, Undef, Undef),
     RawObject(Str("F"), Undef, Undef, Undef, Undef, Undef, Undef, Str("Autumn 2021"))}

FileNames == {"a.json"}

\* ----------------------------------------------------------------- state

VARIABLES
    allCourses,         \* let allCourses
    filteredCourses,    \* let filteredCourses
    departmentSelect,   \* [options, value] of #filter-department
    levelSelect,        \* [options, value] of #filter-level
    creditsSelect,      \* [options, value] of #filter-credits
    instructorSelect,   \* [options, value] of #filter-instructor
    sortSelect,         \* value of #sort-by
    errorMessage,       \* text of #error-message ("" when hidden)
    courseList,         \* the buttons of #course-list
    courseDetails,      \* the course shown in #course-details, if any
    fileName,           \* text of #file-name
    pending,            \* files whose FileReader has not fired yet
    lastEvent,          \* history: the handler that ran last
    lastText,           \* history: the text reader.onload got, when it ran last
    loadedFrom,         \* history: the array of the last load, empty if it failed
    heldBefore          \* history: whether the last handler found a catalog held

vars == <<allCourses, filteredCourses, departmentSelect, levelSelect, creditsSelect,
          instructorSelect, sortSelect, errorMessage, courseList, courseDetails,
          fileName, pending, lastEvent, lastText, loadedFrom, heldBefore>>

catalog == <<allCourses, filteredCourses>>
selects == <<departmentSelect, levelSelect, creditsSelect, instructorSelect>>
page == <<courseList, courseDetails>>

InvalidJson == "Invalid JSON file format."
CouldNotRead == "Could not read file. please try again."

Select(options, value) == [options |-> options, value |-> value]

Init ==
    /\ allCourses = <<>>
    /\ filteredCourses = <<>>
    /\ departmentSelect = Select(<<"All">>, "All")
    /\ levelSelect = Select(<<"All">>, "All")
    /\ creditsSelect = Select(<<"All">>, "All")
    /\ instructorSelect = Select(<<"All">>, "All")
    /\ sortSelect = "none"
    /\ errorMessage = ""
    /\ courseList = <<>>
    /\ courseDetails = Placeholder
    /\ fileName = ""
    /\ pending = {}
    /\ lastEvent = "none"
    /\ lastText = <<>>
    /\ loadedFrom = <<>>
    /\ heldBefore = FALSE

\* ---------------------------------------------------------- reader.onload

\* a variant of CatchBlock that leaves allCourses as the try block left it
CatchBlockKeepsCourses(all, filtered, dSel, lSel, cSel, iSel) ==
    [allCourses |-> all, filteredCourses |-> <<>>,
     departmentSelect |-> dSel, levelSelect |-> lSel,
     creditsSelect |-> cSel, instructorSelect |-> iSel,
     errorMessage |-> InvalidJson,
     courseList |-> renderCourseList(<<>>), courseDetails |-> Placeholder]

\* the catch block: setError, both arrays emptied, list and details rendered
\* anew; all and filtered are the arrays as the try block left them
CatchBlock(all, filtered, dSel, lSel, cSel, iSel) ==
    [allCourses |-> <<>>, filteredCourses |-> <<>>,
     departmentSelect |-> dSel, levelSelect |-> lSel,
     creditsSelect |-> cSel, instructorSelect |-> iSel,
     errorMessage |-> InvalidJson,
     courseList |-> renderCourseList(<<>>), courseDetails |-> Placeholder]

\* a variant of Pushed that adds each course at the front (unshift)
PushedInFront(elems) ==
    LET bad == {i \in 1..Len(elems) : CourseThrows(elems[i])}
        n == IF bad = {} THEN Len(elems) ELSE (CHOOSE i \in bad : \A j \in bad : i <= j) - 1
    IN  [i \in 1..n |-> Course(elems[n + 1 - i])]

\* jsonData.forEach(push new Course): the courses pushed before the first
\* element whose constructor throws
Pushed(elems) ==
    LET bad == {i \in 1..Len(elems) : CourseThrows(elems[i])}
        n == IF bad = {} THEN Len(elems) ELSE (CHOOSE i \in bad : \A j \in bad : i <= j) - 1
    IN  [i \in 1..n |-> Course(elems[i])]

\* reader.onload: every state it can leave behind when reader.result is text
onload(text, all, filtered, dSel, lSel, cSel, iSel, sortValue) ==
    LET jsonData == JSONparse(text)
    IN  IF jsonData.threw \/ ~isArray(jsonData.value)
        THEN {CatchBlock(all, filtered, dSel, lSel, cSel, iSel)}
        ELSE LET pushed == Pushed(jsonData.value.elems)
             IN  IF Len(pushed) < Len(jsonData.value.elems)
                 THEN {CatchBlock(pushed, <<>>, dSel, lSel, cSel, iSel)}
                 ELSE UNION {
                    {IF o.threw
                     THEN CatchBlock(pushed, o.filteredCourses,
                                     Select(opts.department, "All"), Select(opts.level, "All"),
                                     Select(opts.credits, "All"), Select(opts.instructor, "All"))
                     ELSE [allCourses |-> pushed, filteredCourses |-> o.filteredCourses,
                           departmentSelect |-> Select(opts.department, "All"),
                           levelSelect |-> Select(opts.level, "All"),
                           creditsSelect |-> Select(opts.credits, "All"),
                           instructorSelect |-> Select(opts.instructor, "All"),
                           errorMessage |-> "",
                           courseList |-> o.courseList, courseDetails |-> o.courseDetails]
                     : o \in applyFiltersAndSort(pushed, <<>>, <<>>, Placeholder,
                                                 "All", "All", "All", "All", sortValue)}
                    : opts \in populateFilterDropdowns(pushed)}

Becomes(o) ==
    /\ allCourses' = o.allCourses
    /\ filteredCourses' = o.filteredCourses
    /\ departmentSelect' = o.departmentSelect
    /\ levelSelect' = o.levelSelect
    /\ creditsSelect' = o.creditsSelect
    /\ instructorSelect' = o.instructorSelect
    /\ errorMessage' = o.errorMessage
    /\ courseList' = o.courseList
    /\ courseDetails' = o.courseDetails

\* ---------------------------------------------------------------- actions

\* the history variables after the handler named event
Ran(event) ==
    /\ lastEvent' = event
    /\ heldBefore' = (allCourses # <<>>)
    /\ lastText' = <<>>
    /\ loadedFrom' = loadedFrom

\* the change listener of #file-input with a file chosen: its name is shown
\* and a read is started
FileChange(f) ==
    /\ f \notin pending
    /\ fileName' = f
    /\ pending' = pending \cup {f}
    /\ Ran("file")
    /\ UNCHANGED <<catalog, selects, sortSelect, errorMessage, page>>

\* a variant of LoadComplete that sets the sort key back to none as well
LoadCompleteResetsSort(f, text) ==
    /\ f \in pending
    /\ pending' = pending \ {f}
    /\ \E o \in onload(text, allCourses, filteredCourses, departmentSelect, levelSelect,
                       creditsSelect, instructorSelect, "none") :
            /\ Becomes(o)
            /\ loadedFrom' = IF o.errorMessage = "" THEN text.root.elems ELSE <<>>
    /\ lastEvent' = "load"
    /\ heldBefore' = (allCourses # <<>>)
    /\ lastText' = <<text>>
    /\ sortSelect' = "none"
    /\ UNCHANGED fileName

\* a variant of LoadComplete that drops the completion of a read whose file is
\* no longer the one chosen
LoadCompleteOfChosen(f, text) ==
    /\ f \in pending
    /\ pending' = pending \ {f}
    /\ IF f = fileName
       THEN \E o \in onload(text, allCourses, filteredCourses, departmentSelect, levelSelect,
                            creditsSelect, instructorSelect, sortSelect) :
                /\ Becomes(o)
                /\ loadedFrom' = IF o.errorMessage = "" THEN text.root.elems ELSE <<>>
       ELSE UNCHANGED <<catalog, selects, errorMessage, page, loadedFrom>>
    /\ lastEvent' = "load"
    /\ heldBefore' = (allCourses # <<>>)
    /\ lastText' = <<text>>
    /\ UNCHANGED <<sortSelect, fileName>>

\* reader.onload fires for file f, whose text is text
LoadComplete(f, text) ==
    /\ f \in pending
    /\ pending' = pending \ {f}
    /\ \E o \in onload(text, allCourses, filteredCourses, departmentSelect, levelSelect,
                       creditsSelect, instructorSelect, sortSelect) :
            /\ Becomes(o)
            /\ loadedFrom' = IF o.errorMessage = "" THEN text.root.elems ELSE <<>>
    /\ lastEvent' = "load"
    /\ heldBefore' = (allCourses # <<>>)
    /\ lastText' = <<text>>
    /\ UNCHANGED <<sortSelect, fileName>>

\* reader.onerror fires for file f
ReadError(f) ==
    /\ f \in pending
    /\ pending' = pending \ {f}
    /\ errorMessage' = CouldNotRead
    /\ Ran("error")
    /\ UNCHANGED <<catalog, selects, sortSelect, page, fileName>>

\* a variant of Changed that sorts allCourses itself when no course is
\* filtered out (filteredCourses an alias of allCourses instead of a copy)
ChangedInPlace(dv, lv, cv, iv, sv) ==
    \E o \in applyFiltersAndSort(allCourses, filteredCourses, courseList, courseDetails,
                                 dv, lv, cv, iv, sv) :
        /\ filteredCourses' = o.filteredCourses
        /\ courseList' = o.courseList
        /\ courseDetails' = o.courseDetails
        /\ allCourses' = IF Len(o.filteredCourses) = Len(allCourses)
                         THEN o.filteredCourses ELSE allCourses
        /\ UNCHANGED <<errorMessage, fileName, pending>>

\* the body of a select's change listener, with the five values as they are
\* after the change
Changed(dv, lv, cv, iv, sv) ==
    \E o \in applyFiltersAndSort(allCourses, filteredCourses, courseList, courseDetails,
                                 dv, lv, cv, iv, sv) :
        /\ filteredCourses' = o.filteredCourses
        /\ courseList' = o.courseList
        /\ courseDetails' = o.courseDetails
        /\ UNCHANGED <<allCourses, errorMessage, fileName, pending>>

FilterNames == {"department", "level", "credits", "instructor"}

SelectNamed(which) ==
    CASE which = "department" -> departmentSelect
      [] which = "level" -> levelSelect
      [] which = "credits" -> creditsSelect
      [] which = "instructor" -> instructorSelect

OptionsIn(sel) == {sel.options[i] : i \in 1..Len(sel.options)}

Chosen(which, name, sel, v) == IF which = name THEN [sel EXCEPT !.value = v] ELSE sel

\* the change listener shared by the five selects, fired by the user choosing
\* the option with value v in the select which
Change(which, v) ==
    /\ \/ which = "sort" /\ v \in SortKeys /\ v # sortSelect
       \/ which \in FilterNames /\ v \in OptionsIn(SelectNamed(which))
            /\ v # SelectNamed(which).value
    /\ departmentSelect' = Chosen(which, "department", departmentSelect, v)
    /\ levelSelect' = Chosen(which, "level", levelSelect, v)
    /\ creditsSelect' = Chosen(which, "credits", creditsSelect, v)
    /\ instructorSelect' = Chosen(which, "instructor", instructorSelect, v)
    /\ sortSelect' = IF which = "sort" THEN v ELSE sortSelect
    /\ Changed(departmentSelect'.value, levelSelect'.value, creditsSelect'.value,
               instructorSelect'.value, sortSelect')
    /\ Ran("change")

\* the click listener of the i-th button of the list
Click(i) ==
    /\ i \in 1..Len(courseList)
    /\ courseDetails' = DetailsOf(courseList[i].course)
    /\ courseList' = markSelectedCourse(courseList, courseList[i].course.id)
    /\ Ran("click")
    /\ UNCHANGED <<catalog, selects, sortSelect, errorMessage, fileName, pending>>

\* every string that is the value of an option of some select
OptionValuesNow ==
    UNION {OptionsIn(SelectNamed(which)) : which \in FilterNames} \cup SortKeys

Next ==
    \/ \E f \in FileNames : FileChange(f)
    \/ \E f \in FileNames, text \in Texts : LoadComplete(f, text)
    \/ \E f \in FileNames : ReadError(f)
    \/ \E which \in FilterNames \cup {"sort"}, v \in OptionValuesNow : Change(which, v)
    \/ \E i \in 1..Len(courseList) : Click(i)

Spec == Init /\ [][Next]_vars

\* ------------------------------------------- specifications of the view

\* the state after the file a.json, holding the array elems, was chosen on the
\* fresh page and read
Loaded(elems) ==
    /\ \E o \in onload(Document(ArrayRoot(elems)), <<>>, <<>>, Select(<<"All">>, "All"),
                       Select(<<"All">>, "All"), Select(<<"All">>, "All"),
                       Select(<<"All">>, "All"), "none") :
            /\ allCourses = o.allCourses
            /\ filteredCourses = o.filteredCourses
            /\ departmentSelect = o.departmentSelect
            /\ levelSelect = o.levelSelect
            /\ creditsSelect = o.creditsSelect
            /\ instructorSelect = o.instructorSelect
            /\ errorMessage = o.errorMessage
            /\ courseList = o.courseList
            /\ courseDetails = o.courseDetails
    /\ sortSelect = "none"
    /\ fileName = "a.json"
    /\ pending = {}
    /\ lastEvent = "load"
    /\ lastText = <<Document(ArrayRoot(elems))>>
    /\ loadedFrom = elems
    /\ heldBefore = FALSE

\* what the user does with a loaded catalog
NextView ==
    \/ \E which \in FilterNames \cup {"sort"}, v \in OptionValuesNow : Change(which, v)
    \/ \E i \in 1..Len(courseList) : Click(i)

InitView == \E elems \in SeqsUpTo(ViewElements, ViewLen) : Loaded(elems)
SpecView == InitView /\ [][NextView]_vars

\* the user changing the sort key and the filters of a loaded catalog
NextSem == \E which \in FilterNames \cup {"sort"}, v \in OptionValuesNow : Change(which, v)

InitSem == \E elems \in SeqsUpTo(SemElements, SemLen) : Loaded(elems)
SpecSem == InitSem /\ [][NextSem]_vars

\* array elements for the sort of mistyped ids: a complete record and a record
\* whose id is a number
TypedElements ==
    {RawObject(Str("A"), Str("T"), Str("CS"), Num(1), Undef, Str("X"), Undef, Str("Fall 2020")),
     RawObject(Num(7), Undef, Undef, Undef, Undef, Undef, Undef, Undef)}

\* the user filtering, sorting and clicking a loaded catalog with mistyped ids
InitTyped == \E elems \in SeqsUpTo(TypedElements, TypedLen) : Loaded(elems)
SpecTyped == InitTyped /\ [][NextView]_vars

\* array elements for the option lists: levels 1 and 10, the level "1" as a
\* string, a level that is no number, instructors named and missing
OptionElements ==
    {RawObject(Str("A"), Undef, Str("CS"), Num(1), Num(3), Str("X"), Undef, Undef),
     RawObject(Str("B"), Undef, Str("EE"), Num(10), Num(3), Undef, Undef, Undef),
     RawObject(Str("C"), Undef, Str("CS"), Str("1"), Undef, Str("TBA"), Undef, Undef),
     RawObject(Str("D"), Undef, Undef, Str("null"), Num(1), Undef, Undef, Undef)}

OptionTexts == {Document(ArrayRoot(e)) : e \in SeqsUpTo(OptionElements, OptionLen)}

\* files chosen and read one after the other, the sort key left at none
NextOptions ==
    \/ \E f \in FileNames : FileChange(f)
    \/ \E f \in FileNames, text \in OptionTexts : LoadComplete(f, text)

SpecOptions == Init /\ [][NextOptions]_vars

\* the properties the constructor reads
Fields == {"id", "title", "department", "level", "credits", "instructor",
           "description", "semester"}

\* a record with every property present and truthy
CompleteRecord ==
    RawObject(Str("A"), Str("T"), Str("CS"), Num(1), Num(3), Str("X"), Str("Y"), Str("Fall 2020"))

\* what a property can be instead: absent, null, 0, "", a number
OtherValues == {Undef, Null, Num(0), Str(""), Num(7)}

\* the complete record with at most NormVaried properties replaced
NormObjects ==
    UNION {{[f \in DOMAIN CompleteRecord |-> IF f \in D THEN g[f] ELSE CompleteRecord[f]]
            : g \in [D -> OtherValues]}
           : D \in {E \in SUBSET Fields : Cardinality(E) <= NormVaried}}

NormTexts == {Document(ArrayRoot(<<raw>>)) : raw \in NormObjects}

\* files of one record chosen and read one after the other
NextNorm ==
    \/ \E f \in FileNames : FileChange(f)
    \/ \E f \in FileNames, text \in NormTexts : LoadComplete(f, text)

SpecNorm == Init /\ [][NextNorm]_vars

\* three files the user can choose while reads are in flight
RaceFiles == {"a.json", "b.json", "c.json"}

\* reader.result of each: a catalog of one course, a catalog of two, no JSON
ContentOf(f) ==
    CASE f = "a.json" ->
            Document(ArrayRoot(<<
                RawObject(Str("A"), Undef, Str("CS"), Undef, Undef, Undef, Undef, Str("Fall 2020"))>>))
      [] f = "b.json" ->
            Document(ArrayRoot(<<
                RawObject(Str("B"), Undef, Undef, Undef, Undef, Undef, Undef, Str("Spring 2021")),
                RawObject(Str("C"), Undef, Str("CS"), Undef, Undef, Undef, Undef, Str("Winter 2021"))>>))
      [] OTHER -> Malformed

\* files chosen while earlier reads are in flight, the reads completing or
\* failing in any order, the user filtering, sorting and clicking meanwhile
NextRace ==
    \/ \E f \in RaceFiles : FileChange(f)
    \/ \E f \in RaceFiles : LoadComplete(f, ContentOf(f))
    \/ \E f \in RaceFiles : ReadError(f)
    \/ \E which \in FilterNames \cup {"sort"}, v \in OptionValuesNow : Change(which, v)
    \/ \E i \in 1..Len(courseList) : Click(i)

SpecRace == Init /\ [][NextRace]_vars


\* ================================================================ claims

\* the text the last handler was given, when that handler was reader.onload
JustLoaded == lastEvent = "load"
DeliveredText == lastText[1]
DeliveredArray == DeliveredText.wellFormed /\ DeliveredText.root.k = "array"
DeliveredElems == DeliveredText.root.elems

\* the claims' normalization of a whole array, in order
Normalized(elems) == [i \in 1..Len(elems) |-> Course(elems[i])]

NoneMarked == \A i \in 1..Len(courseList) : ~courseList[i].selected

AllFour ==
    /\ departmentSelect.value = "All"
    /\ levelSelect.value = "All"
    /\ creditsSelect.value = "All"
    /\ instructorSelect.value = "All"

\* C1: right after a read error is handled, allCourses and filteredCourses are
\* both empty, whatever catalog was held before.
C1_ReadErrorEmptiesCatalog ==
    lastEvent = "error" => allCourses = <<>> /\ filteredCourses = <<>>

\* C2: after a load completion whose text is not JSON, or whose JSON root is
\* not an array, both arrays are empty, no course is selected and the error is
\* shown, whatever catalog was held before.
C2_BadTextEmptiesCatalog ==
    (JustLoaded /\ DeliveredText \in BadTexts) =>
        /\ allCourses = <<>>
        /\ filteredCourses = <<>>
        /\ courseDetails = Placeholder
        /\ NoneMarked
        /\ errorMessage = InvalidJson

\* a catalog was held and shown, then a file whose root is an object arrived
C2_Witness ==
    /\ JustLoaded
    /\ DeliveredText = Document(OtherRoot("obj"))
    /\ heldBefore
    /\ allCourses = <<>>
    /\ errorMessage = InvalidJson

\* C3: between events allCourses is empty or the in-order normalization of
\* every element of one array, the one of the last load that succeeded: never
\* a prefix of an array, never courses of two loads.
C3_AllOrNothing ==
    /\ \A i \in 1..Len(loadedFrom) : ~CourseThrows(loadedFrom[i])
    /\ allCourses = Normalized(loadedFrom)

\* a catalog was held, then an array arrived whose second element cannot be
\* normalized: the first element's course was pushed and is gone again
C3_Witness ==
    /\ JustLoaded
    /\ DeliveredArray
    /\ Len(DeliveredElems) = 2
    /\ ~CourseThrows(DeliveredElems[1])
    /\ CourseThrows(DeliveredElems[2])
    /\ heldBefore
    /\ allCourses = <<>>

\* C4: every JSON array loads successfully, whatever its elements lack or
\* mistype and whatever sort key is chosen: one course per element and no error.
C4_MalformedRecordsLoad ==
    (JustLoaded /\ DeliveredArray) =>
        /\ errorMessage = ""
        /\ Len(allCourses) = Len(DeliveredElems)

\* C5: a load that succeeds leaves allCourses the normalization of each
\* element of its array, in order and of the same length, with nothing of the
\* catalog held before; an empty array loads without error and leaves an
\* empty catalog, an empty list and no selection.
C5_LoadReplacesCatalog ==
    (JustLoaded /\ DeliveredArray) =>
        /\ errorMessage = "" =>
            /\ Len(allCourses) = Len(DeliveredElems)
            /\ allCourses = Normalized(DeliveredElems)
        /\ DeliveredElems = <<>> =>
            /\ errorMessage = ""
            /\ allCourses = <<>>
            /\ filteredCourses = <<>>
            /\ courseList = <<>>
            /\ courseDetails = Placeholder

\* a catalog was held, then an array of two different records loaded
C5_Witness ==
    /\ JustLoaded
    /\ DeliveredArray
    /\ heldBefore
    /\ errorMessage = ""
    /\ Len(allCourses) = 2
    /\ allCourses[1] # allCourses[2]

\* the view the four filter values and the sort key chosen now give of allCourses
CurrentView ==
    StableSort(<<>>,
               FilterCourses(allCourses, departmentSelect.value, levelSelect.value,
                             creditsSelect.value, instructorSelect.value),
               sortSelect)

\* C6: in every state filteredCourses is the current filters and the current
\* sort key applied to the current allCourses.
C6_ViewIsCurrent == filteredCourses = CurrentView

\* C7: while the level filter is on a concrete option no course with a null
\* level is in filteredCourses, and likewise for credits.
C7_NullNeverMatches ==
    /\ levelSelect.value # "All" =>
        \A i \in 1..Len(filteredCourses) : filteredCourses[i].level # Null
    /\ creditsSelect.value # "All" =>
        \A i \in 1..Len(filteredCourses) : filteredCourses[i].credits # Null

\* the claim's predicate of one field: the selection is "All" or the value is
\* that very string
Selected(selection, value) == selection = "All" \/ value = Str(selection)

\* the claim's four predicates, ANDed
Passes(course) ==
    /\ Selected(departmentSelect.value, course.department)
    /\ Selected(levelSelect.value, Str(ToStr(course.level)))
    /\ Selected(creditsSelect.value, Str(ToStr(course.credits)))
    /\ Selected(instructorSelect.value,
                IF course.instructor = Null THEN Str("TBA") ELSE course.instructor)

\* C8: with sort key none, filteredCourses is the subsequence of allCourses,
\* in catalog order, of the courses that pass all four predicates.
C8_FilterIsSubsequence ==
    sortSelect = "none" => filteredCourses = SelectSeq(allCourses, Passes)

\* a filter was narrowed: some courses of the catalog pass and some do not
C8_Witness ==
    /\ sortSelect = "none"
    /\ lastEvent = "change"
    /\ ~AllFour
    /\ Len(filteredCourses) > 0
    /\ Len(filteredCourses) < Len(allCourses)

\* C9: with all four selections "All", filtering returns allCourses itself:
\* the same courses, as many, in catalog order.
C9_AllReturnsCatalog ==
    AllFour =>
        /\ FilterCourses(allCourses, departmentSelect.value, levelSelect.value,
                         creditsSelect.value, instructorSelect.value) = allCourses
        /\ Len(filteredCourses) = Len(allCourses)
        /\ sortSelect = "none" => filteredCourses = allCourses

\* the user set a filter back to "All" or the sort back to none on a catalog
\* of several courses
C9_Witness ==
    /\ AllFour
    /\ lastEvent = "change"
    /\ sortSelect = "none"
    /\ Len(allCourses) >= 2
    /\ allCourses[1] # allCourses[2]

\* the claim's semester key of the semesters the catalogs hold: year * 10 +
\* rank of the term
ClaimedKey(course) ==
    CASE course.semester = Str("Fall 2020") -> 2020 * 10 + 4
      [] course.semester = Str("Spring 2021") -> 2021 * 10 + 2
      [] course.semester = Str("Winter 2021") -> 2021 * 10 + 1
      [] course.semester = Str("Autumn 2021") -> 2021 * 10 + 0
      [] course.semester = Str("Unknown semester") -> 0 * 10 + 0

VisibleCourses == [i \in 1..Len(courseList) |-> courseList[i].course]
FilteredSubset == SelectSeq(allCourses, Passes)
SemestersOf(courses) == [i \in 1..Len(courses) |-> courses[i].semester.s]
WithKey(courses, key) == SelectSeq(courses, LAMBDA c : ClaimedKey(c) = key)

\* C10: under sem-earliest the visible list holds the filtered subset in
\* non-decreasing order of the semester key, courses of equal key in catalog
\* order; under sem-latest in non-increasing order with the same rule for
\* ties. Fall 2020, Spring 2021, Winter 2021 shows as Fall 2020, Winter 2021,
\* Spring 2021.
C10_SemesterOrder ==
    sortSelect \in {"sem-earliest", "sem-latest"} =>
        /\ Len(VisibleCourses) = Len(FilteredSubset)
        /\ \A i \in 1..Len(FilteredSubset) :
                WithKey(VisibleCourses, ClaimedKey(FilteredSubset[i]))
                    = WithKey(FilteredSubset, ClaimedKey(FilteredSubset[i]))
        /\ \A i, j \in 1..Len(VisibleCourses) :
                i < j =>
                    IF sortSelect = "sem-earliest"
                    THEN ClaimedKey(VisibleCourses[i]) <= ClaimedKey(VisibleCourses[j])
                    ELSE ClaimedKey(VisibleCourses[i]) >= ClaimedKey(VisibleCourses[j])
        /\ (/\ sortSelect = "sem-earliest"
            /\ SemestersOf(FilteredSubset) = <<"Fall 2020", "Spring 2021", "Winter 2021">>)
                => SemestersOf(VisibleCourses) = <<"Fall 2020", "Winter 2021", "Spring 2021">>

\* the example of the claim, sorted by the user
C10_Witness ==
    /\ sortSelect = "sem-earliest"
    /\ lastEvent = "change"
    /\ AllFour
    /\ SemestersOf(allCourses) = <<"Fall 2020", "Spring 2021", "Winter 2021">>
    /\ SemestersOf(VisibleCourses) = <<"Fall 2020", "Winter 2021", "Spring 2021">>

\* the last handler re-ran filter and sort: a change of a select, or a load
\* that reported no error
Reran == lastEvent = "change" \/ (lastEvent = "load" /\ errorMessage = "")

\* C11: right after every re-run of filter and sort (a successful load, or a
\* change of a filter or of the sort key) that leaves filteredCourses
\* non-empty, the course shown in the details panel is filteredCourses[0],
\* whatever course was clicked before.
C11_RerunSelectsFirst ==
    (Reran /\ filteredCourses # <<>>) => courseDetails = DetailsOf(filteredCourses[1])

\* the courses of filteredCourses
FilteredSet == {filteredCourses[i] : i \in 1..Len(filteredCourses)}

\* C12: in every state, an empty filteredCourses goes with the placeholder in
\* the details panel, and a course shown in the details panel is an element of
\* filteredCourses.
C12_SelectionInView ==
    /\ filteredCourses = <<>> => courseDetails = Placeholder
    /\ courseDetails # Placeholder => courseDetails[1] \in FilteredSet

\* the options of a select after the leading "All"
Derived(sel) == Tail(sel.options)

DuplicateFree(seq) == \A i, j \in 1..Len(seq) : i # j => seq[i] # seq[j]

\* ascending as strings
StringSorted(seq) == \A i, j \in 1..Len(seq) : i < j => CodeUnitCompare(seq[i], seq[j]) <= 0

\* ascending as numbers: no number stands before a smaller one
NumberSorted(seq) ==
    \A i, j \in 1..Len(seq) :
        (i < j /\ ~ToNumber(Str(seq[i])).nan /\ ~ToNumber(Str(seq[j])).nan)
            => ToNumber(Str(seq[i])).n <= ToNumber(Str(seq[j])).n

InCatalog(P(_)) == \E i \in 1..Len(allCourses) : P(allCourses[i])

\* C13: for every loaded catalog the four option lists start with "All" and
\* are otherwise duplicate-free and ascending, departments and instructor
\* labels as strings, levels and credits as numbers; a null level or credits
\* gives no option, and null instructors give the one option "TBA".
C13_OptionsSortedDistinct ==
    (JustLoaded /\ errorMessage = "") =>
        /\ \A sel \in {departmentSelect, levelSelect, creditsSelect, instructorSelect} :
                Head(sel.options) = "All" /\ DuplicateFree(Derived(sel))
        /\ StringSorted(Derived(departmentSelect))
        /\ StringSorted(Derived(instructorSelect))
        /\ NumberSorted(Derived(levelSelect))
        /\ NumberSorted(Derived(creditsSelect))
        /\ \A i \in 1..Len(Derived(levelSelect)) :
                InCatalog(LAMBDA c : c.level # Null /\ ToStr(c.level) = Derived(levelSelect)[i])
        /\ \A i \in 1..Len(Derived(creditsSelect)) :
                InCatalog(LAMBDA c : c.credits # Null /\ ToStr(c.credits) = Derived(creditsSelect)[i])
        /\ InCatalog(LAMBDA c : c.instructor = Null) =>
                \E i \in 1..Len(Derived(instructorSelect)) : Derived(instructorSelect)[i] = "TBA"

\* the claim's default of a property
DefaultOf(f) ==
    CASE f = "id" -> Str("Unknown ID")
      [] f = "title" -> Str("Untitled course")
      [] f = "department" -> Str("Unknown department")
      [] f = "description" -> Str("No description available.")
      [] f = "semester" -> Str("Unknown semester")
      [] OTHER -> Null

\* present and truthy: not absent, not null, not 0, not ""
PresentAndTruthy(v) == v \notin {Undef, Null, Num(0), Str("")}

\* C14: every object normalizes, and each field of the course depends on the
\* same property of the object alone: id, title, department, description and
\* semester are the source value when present and truthy and else their own
\* default; level, credits and instructor are the source value or null; no
\* field is undefined.
C14_NormalizationPerField ==
    (JustLoaded /\ DeliveredArray /\ \A i \in 1..Len(DeliveredElems) : DeliveredElems[i].k = "obj") =>
        /\ errorMessage = ""
        /\ Len(allCourses) = Len(DeliveredElems)
        /\ \A i \in 1..Len(allCourses) : \A f \in Fields :
                /\ allCourses[i][f] # Undef
                /\ allCourses[i][f] =
                        IF PresentAndTruthy(DeliveredElems[i][f])
                        THEN DeliveredElems[i][f] ELSE DefaultOf(f)
                /\ f \in {"level", "credits", "instructor"} =>
                        allCourses[i][f] \in {DeliveredElems[i][f], Null}

\* a record with no id and a title: the id is the default, the title is kept
C14_Witness ==
    /\ JustLoaded
    /\ DeliveredArray
    /\ Len(DeliveredElems) = 1
    /\ DeliveredElems[1].k = "obj"
    /\ DeliveredElems[1].id = Undef
    /\ DeliveredElems[1].title = Str("T")
    /\ allCourses = <<[id |-> Str("Unknown ID"), title |-> Str("T"), department |-> Str("CS"),
                       level |-> Num(1), credits |-> Num(3), instructor |-> Str("X"),
                       description |-> Str("Y"), semester |-> Str("Fall 2020")]>>

\* the file whose read completed last
CompletedLast == CHOOSE f \in RaceFiles : ContentOf(f) = DeliveredText

\* the catalog a file holds: its array normalized, none when it is no array
CatalogOf(f) ==
    IF ContentOf(f).wellFormed /\ ContentOf(f).root.k = "array"
    THEN Normalized(ContentOf(f).root.elems)
    ELSE <<>>

\* C15: right after a read completes the catalog is the whole catalog of that
\* read's file, whichever file was chosen last and whatever other reads are
\* in flight or completed before; so of two reads in flight the one that
\* completes last decides the catalog.
C15_LastCompletionWins ==
    JustLoaded => allCourses = CatalogOf(CompletedLast)

\* b.json was chosen while a.json was being read, and a.json's read completed
\* after b.json's: the catalog is a.json's and the file shown is b.json
C15_Witness ==
    /\ JustLoaded
    /\ CompletedLast = "a.json"
    /\ fileName = "b.json"
    /\ pending = {}
    /\ heldBefore
    /\ Len(allCourses) = 1
    /\ allCourses[1].id = Str("A")

\* C16: a step of any handler but reader.onload leaves allCourses as it was,
\* the same courses in the same order: a change of a filter or of the sort
\* key, a click, a read error, the choice of a file.
C16_OnlyLoadChangesCatalog ==
    [][lastEvent' # "load" => allCourses' = allCourses]_vars

\* the user sorted a catalog: the visible list is in another order than
\* allCourses, which is still the array of the file
C16_Witness ==
    /\ lastEvent = "change"
    /\ sortSelect # "none"
    /\ Len(filteredCourses) = Len(allCourses)
    /\ filteredCourses # allCourses
    /\ VisibleCourses = filteredCourses
    /\ allCourses = Normalized(loadedFrom)

Offered(opts) ==
    /\ departmentSelect.options = opts.department
    /\ levelSelect.options = opts.level
    /\ creditsSelect.options = opts.credits
    /\ instructorSelect.options = opts.instructor

\* C18: in every state the options of the four filters are the ones derived
\* from the current allCourses; with the catalog emptied by a failed load
\* every filter offers only "All" and is on "All".
C18_OptionsOfCurrentCatalog ==
    /\ \E opts \in populateFilterDropdowns(allCourses) : Offered(opts)
    /\ (allCourses = <<>> /\ errorMessage = InvalidJson) =>
            /\ Offered([department |-> <<"All">>, level |-> <<"All">>,
                        credits |-> <<"All">>, instructor |-> <<"All">>])
            /\ AllFour

\* the entries of the list that carry the class selected
Marked == {i \in 1..Len(courseList) : courseList[i].selected}

\* C19: whenever the list is not empty exactly one of its entries is marked
\* as selected, and it is the entry of the course the details panel shows.
C19_OneEntryMarked ==
    courseList # <<>> =>
        /\ Cardinality(Marked) = 1
        /\ \A i \in Marked : courseDetails = DetailsOf(courseList[i].course)

====
